---- MODULE Spec2Model ----
(***************************************************************************)
(* Vector retrieval backend of minimalllmdemo: the Milvus store lifecycle  *)
(* (database_operations.py), the startup sequence and the LINE webhook     *)
(* (main.py).  The Milvus server is the persistent store the program talks *)
(* to through one ambient connection (alias "default"); the database that  *)
(* connection is bound to decides where utility.has_collection, Collection *)
(* and db.* calls act.                                                     *)
(***************************************************************************)
EXTENDS Integers, Sequences, FiniteSets, TLC

VARIABLES
    databases,      \* names of the databases the Milvus server holds
    colls,          \* colls[db][name]: the collection of that name in db, or NoColl
    conn,           \* database the ambient "default" connection is bound to
    nextId,         \* Milvus auto_id allocator (primary keys)
    nextUid,        \* identity given to the next collection that is created
    model,          \* config.OPENAI_EMBEDDING_MODEL
    initial_texts,  \* texts.initial_texts, the seed corpus
    pc,             \* position of the main script
    caller,         \* who called setup_collection
    i,              \* setup_collection: index of the text the loop is at
    base,           \* number of documents the handle held when setup_collection got it
    created,        \* uids returned by the create_collection calls of this run
    inserted,       \* number of successful collection.insert calls of this run
    reset_uid,      \* uid of the collection reset_database returned (0: not yet)
    last_embedding, \* embedding produced by the last generate_embeddings_openai call
    err,            \* exception that ended the main script ("none": none)
    collection,     \* main.py's global handle (a collection name, "" before line 118)
    req             \* the last webhook request and what the handler did with it

vars == <<databases, colls, conn, nextId, nextUid, model, initial_texts, pc, caller,
          i, base, created, inserted, reset_uid, last_embedding, err, collection, req>>

----------------------------------------------------------------------------
(* Bounds of the model. *)

\* longest seed corpus
MaxCorpus == 5
\* most documents a collection holds before the program starts
MaxPrior == 1
\* largest top_k a search is tried with
MaxTopK == 6

(* Program constants. *)

database_name == "my_database"
collection_name == "thai_text_embeddings"
default_database == "default"
other_collection == "other_collection"

LargeModel == "text-embedding-3-large"
SmallModel == "text-embedding-3-small"
Models == {LargeModel, SmallModel}

LargeDim == 3072
SmallDim == 1536
WebhookTopK == 4

DatabaseNames == {default_database, database_name}
CollectionNames == {collection_name, other_collection}

----------------------------------------------------------------------------
(* Texts are sequences of characters. "k", "m", "K" stand for letters.     *)

Space == " "
Comma == ","

\* pythainlp.util.normalize: duplicate spaces are removed
RECURSIVE normalize(_)
normalize(text) ==
    IF Len(text) < 2 THEN text
    ELSE IF Head(text) = Space /\ Head(Tail(text)) = Space THEN normalize(Tail(text))
         ELSE <<Head(text)>> \o normalize(Tail(text))

\* pythainlp word_tokenize: one token per character of the bounded alphabet
word_tokenize(text) == [j \in 1..Len(text) |-> <<text[j]>>]

RECURSIVE JoinTokens(_)
JoinTokens(tokens) ==
    IF tokens = <<>> THEN <<>>
    ELSE IF Len(tokens) = 1 THEN Head(tokens)
         ELSE Head(tokens) \o <<Space>> \o JoinTokens(Tail(tokens))

IsWordToken(token) == token # <<Space>> /\ token # <<Comma>>

preprocess_text(text) ==
    JoinTokens(SelectSeq(word_tokenize(normalize(text)), IsWordToken))

\* str.strip()
RECURSIVE LStrip(_)
LStrip(s) == IF s # <<>> /\ Head(s) = Space THEN LStrip(Tail(s)) ELSE s
RECURSIVE RStrip(_)
RStrip(s) ==
    IF s # <<>> /\ s[Len(s)] = Space THEN RStrip(SubSeq(s, 1, Len(s) - 1)) ELSE s
Strip(s) == RStrip(LStrip(s))

\* str.lower()
Lower(s) == [j \in 1..Len(s) |-> IF s[j] = "K" THEN "k" ELSE s[j]]

----------------------------------------------------------------------------
(* Embeddings. A vector of the model's dimension is held as its length and *)
(* one coordinate; L2 distance is the squared difference of coordinates.   *)

NoneEmbedding == [dim |-> 0, x |-> 0]

CharWeight(c) ==
    CASE c = "k" -> 1
      [] c = "m" -> 2
      [] c = "K" -> 5
      [] c = Space -> 3
      [] OTHER -> 4

RECURSIVE Coord(_)
Coord(text) == IF text = <<>> THEN 0 ELSE CharWeight(Head(text)) + Coord(Tail(text))

EmbeddingDim(model_name) == IF model_name = LargeModel THEN LargeDim ELSE SmallDim

\* ok: the HTTP call succeeded; otherwise both except branches end in None
generate_embeddings_openai(text, model_name, ok) ==
    IF ok THEN [dim |-> EmbeddingDim(model_name), x |-> Coord(text)]
    ELSE NoneEmbedding

L2(a, b) == (a.x - b.x) * (a.x - b.x)

----------------------------------------------------------------------------
(* The store. *)

NoColl == [uid |-> 0, dim |-> 0, docs |-> <<>>, indexed |-> FALSE,
           indexedAt |-> 0, loaded |-> FALSE]

\* Collection(name=..., schema=...): a new, empty collection of the given dimension
NewCollection(uid, embedding_dim) ==
    [uid |-> uid, dim |-> embedding_dim, docs |-> <<>>, indexed |-> FALSE,
     indexedAt |-> 0, loaded |-> FALSE]

has_collection(db, name) == colls[db][name] # NoColl

\* the collection the handle `name` resolves to through the ambient connection
Handle(name) == colls[conn][name]

\* create_collection, on the entry `existing` of the connected database
create_collection(existing, uid, model_name) ==
    IF existing # NoColl THEN existing
    ELSE NewCollection(uid, EmbeddingDim(model_name))

\* a store that takes a missing vector for a row
InsertAccepted_accepts_none(c, embedding) ==
    embedding = NoneEmbedding \/ embedding.dim = c.dim

\* collection.insert accepts a row only if its vector has the schema's dimension
InsertAccepted(c, embedding) == embedding # NoneEmbedding /\ embedding.dim = c.dim

InsertError(c, embedding) ==
    IF embedding = NoneEmbedding THEN "ParamError"
    ELSE IF embedding.dim # c.dim THEN "SchemaMismatchError"
    ELSE "none"

\* an insert that stores the row whatever the vector's dimension
insert_texts_unchecked(c, text, embedding, id) ==
    [c EXCEPT !.docs = Append(@, [id |-> id, text |-> text, embedding |-> embedding])]

\* an insert that puts the new row first
insert_texts_prepend(c, text, embedding, id) ==
    IF InsertAccepted(c, embedding)
    THEN [c EXCEPT !.docs = <<[id |-> id, text |-> text, embedding |-> embedding]>> \o @]
    ELSE c

\* insert_texts: collection.insert, then collection.flush
insert_texts(c, text, embedding, id) ==
    IF InsertAccepted(c, embedding)
    THEN [c EXCEPT !.docs = Append(@, [id |-> id, text |-> text, embedding |-> embedding])]
    ELSE c

create_index(c) ==
    IF c.indexed THEN c
    ELSE [c EXCEPT !.indexed = TRUE, !.indexedAt = Len(c.docs)]

\* remove_existing_database: the collections of each database afterwards
remove_existing_database_colls ==
    IF database_name \in databases
    THEN [colls EXCEPT ![database_name] = [n \in CollectionNames |-> NoColl]]
    ELSE colls

\* remove_existing_database: the database the connection is left bound to
remove_existing_database_conn ==
    IF database_name \in databases THEN database_name ELSE default_database

\* collection.load succeeds on a reachable collection that has an index
load(c, store_up) ==
    IF store_up /\ c # NoColl /\ c.indexed THEN [c EXCEPT !.loaded = TRUE] ELSE c

\* the error collection.load raises on c, "none" if it succeeds
LoadError(c, store_up) ==
    IF ~store_up THEN "StoreUnavailableError"
    ELSE IF c = NoColl THEN "CollectionNotExists"
    ELSE IF ~c.indexed THEN "IndexNotFound"
    ELSE "none"

\* the error collection.search raises on c, "none" if the search runs
SearchError(c, query_embedding) ==
    IF ~c.loaded THEN "CollectionNotLoaded"
    ELSE IF query_embedding = NoneEmbedding THEN "ParamError"
    ELSE IF query_embedding.dim # c.dim THEN "SchemaMismatchError"
    ELSE "none"

\* the store ranks by distance; the order among equal distances is the store's
\* choice (tie: "asc" smaller id first, "desc" larger id first)
RanksBefore(d1, d2, q, tie) ==
    \/ L2(d1.embedding, q) < L2(d2.embedding, q)
    \/ /\ L2(d1.embedding, q) = L2(d2.embedding, q)
       /\ IF tie = "asc" THEN d1.id < d2.id ELSE d1.id > d2.id

RECURSIVE InsertRanked(_, _, _, _)
InsertRanked(d, ranked, q, tie) ==
    IF ranked = <<>> THEN <<d>>
    ELSE IF RanksBefore(d, Head(ranked), q, tie) THEN <<d>> \o ranked
         ELSE <<Head(ranked)>> \o InsertRanked(d, Tail(ranked), q, tie)

RECURSIVE Ranked(_, _, _)
Ranked(docs, q, tie) ==
    IF docs = <<>> THEN <<>>
    ELSE InsertRanked(Head(docs), Ranked(Tail(docs), q, tie), q, tie)

\* collection.search(..., limit=limit, output_fields=["id", "text"])
collection_search(c, q, limit, tie) ==
    LET ranked == Ranked(c.docs, q, tie)
        n == IF Len(ranked) < limit THEN Len(ranked) ELSE limit
    IN [j \in 1..n |-> [id |-> ranked[j].id, text |-> ranked[j].text,
                        distance |-> L2(ranked[j].embedding, q)]]

\* a search that does not pass limit=top_k
search_similar_texts_no_limit(c, query_embedding, top_k, tie) ==
    LET results == collection_search(c, query_embedding, Len(c.docs), tie)
    IN [j \in 1..Len(results) |->
            [ID |-> results[j].id, Text |-> results[j].text,
             Distance |-> results[j].distance]]

\* a search that returns the hits last to first
search_similar_texts_reversed(c, query_embedding, top_k, tie) ==
    LET results == collection_search(c, query_embedding, top_k, tie)
        n == Len(results)
    IN [j \in 1..n |->
            [ID |-> results[n + 1 - j].id, Text |-> results[n + 1 - j].text,
             Distance |-> results[n + 1 - j].distance]]

search_similar_texts(c, query_embedding, top_k, tie) ==
    LET results == collection_search(c, query_embedding, top_k, tie)
    IN [j \in 1..Len(results) |->
            [ID |-> results[j].id, Text |-> results[j].text,
             Distance |-> results[j].distance]]

----------------------------------------------------------------------------
(* Inputs. *)

RawTexts == << <<"k">>, <<"k", "m">>, <<"m", Comma, "k">> >>

\* seed corpora: n texts, cycling through RawTexts from offset s
Corpus(n, s) == [j \in 1..n |-> RawTexts[((j + s) % Len(RawTexts)) + 1]]
Corpora == {Corpus(n, s) : n \in 0..MaxCorpus, s \in 0..(Len(RawTexts) - 1)}

QueryTexts == { <<"k">>, <<Space, "K", "m">>, <<"m", Comma, "k">> }
EventTypes == {"message", "follow"}
TieOrders == {"asc", "desc"}

PriorText == <<"k", "m">>

\* collections the store held before the program started have the first uids
IsNew(c) == c.uid > Cardinality(DatabaseNames)

\* a collection an earlier run left in the store
PriorCollection(uid, embedding_dim, n, indexed, first_id) ==
    [uid |-> uid, dim |-> embedding_dim,
     docs |-> [j \in 1..n |-> [id |-> first_id + j - 1,
                               text |-> preprocess_text(PriorText),
                               embedding |-> [dim |-> embedding_dim, x |-> Coord(PriorText)]]],
     indexed |-> indexed, indexedAt |-> IF indexed THEN n ELSE 0, loaded |-> FALSE]

PriorCollections(uid, first_id) ==
    {NoColl} \cup {PriorCollection(uid, d, n, x, first_id) :
                       d \in {LargeDim, SmallDim}, n \in 0..MaxPrior, x \in BOOLEAN}

OtherCollection == NewCollection(9, SmallDim)

NoRequest == [etype |-> "none", user_input |-> <<>>, embedding |-> NoneEmbedding,
              store_up |-> TRUE, outcome |-> "none", error |-> "none",
              searched |-> FALSE, similar_texts |-> <<>>, reply |-> "none"]

----------------------------------------------------------------------------
(* Initial state: the script starts against a store in any prior state. *)

Init ==
    /\ model \in Models
    /\ initial_texts \in Corpora
    /\ databases \in {{default_database}, DatabaseNames}
    /\ \E cd \in PriorCollections(1, 1), cm \in PriorCollections(2, MaxPrior + 1),
          om \in {NoColl, OtherCollection} :
         colls = [db \in DatabaseNames |-> [n \in CollectionNames |->
                    IF db = default_database
                    THEN (IF n = collection_name THEN cd ELSE NoColl)
                    ELSE IF database_name \notin databases THEN NoColl
                    ELSE IF n = collection_name THEN cm ELSE om]]
    /\ conn = default_database
    /\ nextId = 2 * MaxPrior + 1
    /\ nextUid = Cardinality(DatabaseNames) + 1
    /\ pc = "reset_database"
    /\ caller = "none"
    /\ i = 0
    /\ base = 0
    /\ created = <<>>
    /\ inserted = 0
    /\ reset_uid = 0
    /\ last_embedding = NoneEmbedding
    /\ err = "none"
    /\ collection = "none"
    /\ req = NoRequest

----------------------------------------------------------------------------
(* Startup: main.py runs reset_database(), then initialize_database(). *)

\* main.py line 115: reset_database() up to its call of setup_collection
reset_database ==
    /\ pc = "reset_database"
    /\ databases' = databases \cup {database_name}
    /\ colls' = remove_existing_database_colls
    /\ conn' = remove_existing_database_conn
    /\ caller' = "reset_database"
    /\ pc' = "setup_collection"
    /\ UNCHANGED <<nextId, nextUid, model, initial_texts, i, base, created, inserted,
                   reset_uid, last_embedding, err, collection, req>>

\* a setup_collection that calls create_index before the loop over initial_texts
setup_collection_index_first ==
    /\ pc = "setup_collection"
    /\ LET existing == Handle(collection_name)
           c == create_collection(existing, nextUid, model)
       IN /\ colls' = [colls EXCEPT ![conn][collection_name] = create_index(c)]
          /\ nextUid' = IF c.uid = nextUid THEN nextUid + 1 ELSE nextUid
          /\ created' = Append(created, c.uid)
          /\ base' = Len(c.docs)
    /\ i' = 1
    /\ pc' = "ingest"
    /\ UNCHANGED <<databases, conn, nextId, model, initial_texts, caller, inserted,
                   reset_uid, last_embedding, err, collection, req>>

\* setup_collection line 197: collection = create_collection(model_name=...)
setup_collection ==
    /\ pc = "setup_collection"
    /\ LET existing == Handle(collection_name)
           c == create_collection(existing, nextUid, model)
       IN /\ colls' = [colls EXCEPT ![conn][collection_name] = c]
          /\ nextUid' = IF c.uid = nextUid THEN nextUid + 1 ELSE nextUid
          /\ created' = Append(created, c.uid)
          /\ base' = Len(c.docs)
    /\ i' = 1
    /\ pc' = "ingest"
    /\ UNCHANGED <<databases, conn, nextId, model, initial_texts, caller, inserted,
                   reset_uid, last_embedding, err, collection, req>>

\* setup_collection lines 198-201: one iteration of the loop over initial_texts
ingest_text ==
    /\ pc = "ingest"
    /\ i <= Len(initial_texts)
    /\ \E ok \in BOOLEAN :
         LET text == initial_texts[i]
             processed_text == preprocess_text(text)
             embedding == generate_embeddings_openai(text, model, ok)
             c == Handle(collection_name)
         IN /\ last_embedding' = embedding
            /\ colls' = [colls EXCEPT ![conn][collection_name] =
                            insert_texts(c, processed_text, embedding, nextId)]
            /\ IF InsertAccepted(c, embedding)
               THEN /\ nextId' = nextId + 1
                    /\ inserted' = inserted + 1
                    /\ i' = i + 1
                    /\ UNCHANGED <<pc, err>>
               ELSE /\ pc' = "crashed"
                    /\ err' = InsertError(c, embedding)
                    /\ UNCHANGED <<nextId, inserted, i>>
    /\ UNCHANGED <<databases, conn, nextUid, model, initial_texts, caller, base,
                   created, reset_uid, collection, req>>

\* setup_collection lines 202-203: create_index(collection); return collection
build_index ==
    /\ pc = "ingest"
    /\ i > Len(initial_texts)
    /\ colls' = [colls EXCEPT ![conn][collection_name] = create_index(@)]
    /\ IF caller = "reset_database"
       THEN /\ pc' = "initialize_database"
            /\ reset_uid' = Handle(collection_name).uid
            /\ UNCHANGED collection
       ELSE /\ pc' = "serve"
            /\ collection' = collection_name
            /\ UNCHANGED reset_uid
    /\ UNCHANGED <<databases, conn, nextId, nextUid, model, initial_texts, caller, i,
                   base, created, inserted, last_embedding, err, req>>

\* main.py line 118: collection = initialize_database()
initialize_database ==
    /\ pc = "initialize_database"
    /\ IF database_name \in databases
       THEN /\ conn' = database_name
            /\ UNCHANGED <<databases, colls>>
            /\ IF has_collection(database_name, collection_name)
               THEN /\ collection' = collection_name
                    /\ pc' = "serve"
                    /\ UNCHANGED caller
               ELSE /\ caller' = "initialize_database"
                    /\ pc' = "setup_collection"
                    /\ UNCHANGED collection
       ELSE /\ databases' = databases \cup {database_name}
            /\ colls' = remove_existing_database_colls
            /\ conn' = remove_existing_database_conn
            /\ caller' = "initialize_database"
            /\ pc' = "setup_collection"
            /\ UNCHANGED collection
    /\ UNCHANGED <<nextId, nextUid, model, initial_texts, i, base, created, inserted,
                   reset_uid, last_embedding, err, req>>

----------------------------------------------------------------------------
(* Serving: one event of a webhook request body. *)

\* webhook lines 89-109 for one event; ok, store_up, chat_ok: whether the embedding
\* call, the store and the chat completion call succeed; tie: the store's tie order
handle_event(text, etype, ok, store_up, tie, chat_ok) ==
    IF etype # "message"
    THEN /\ req' = [NoRequest EXCEPT !.etype = etype, !.outcome = "done"]
         /\ UNCHANGED colls
    ELSE LET user_input == Lower(Strip(text))
             embedding == generate_embeddings_openai(user_input, model, ok)
             c == load(Handle(collection), store_up)
             load_error == LoadError(Handle(collection), store_up)
             error == IF load_error # "none" THEN load_error
                      ELSE SearchError(c, embedding)
             similar_texts == search_similar_texts(c, embedding, WebhookTopK, tie)
         IN /\ colls' = [colls EXCEPT ![conn][collection] = c]
            /\ req' = IF error = "none"
                      THEN [etype |-> etype, user_input |-> user_input,
                            embedding |-> embedding, store_up |-> store_up,
                            outcome |-> "done", error |-> "none",
                            searched |-> TRUE, similar_texts |-> similar_texts,
                            reply |-> IF similar_texts = <<>> THEN "no_context"
                                      ELSE IF chat_ok THEN "answer" ELSE "sorry"]
                      ELSE [etype |-> etype, user_input |-> user_input,
                            embedding |-> embedding, store_up |-> store_up,
                            outcome |-> "exception", error |-> error,
                            searched |-> FALSE, similar_texts |-> <<>>,
                            reply |-> "none"]

webhook ==
    /\ pc = "serve"
    /\ \E text \in QueryTexts, etype \in EventTypes, ok \in BOOLEAN,
          store_up \in BOOLEAN, tie \in TieOrders, chat_ok \in BOOLEAN :
         \* inputs that cannot change the outcome are fixed to one value
         /\ (etype # "message" \/ ~ok \/ ~store_up) => (tie = "asc" /\ chat_ok)
         /\ etype # "message" => (ok /\ store_up /\ text = <<"k">>)
         /\ handle_event(text, etype, ok, store_up, tie, chat_ok)
    /\ UNCHANGED <<databases, conn, nextId, nextUid, model, initial_texts, pc, caller,
                   i, base, created, inserted, reset_uid, last_embedding, err,
                   collection>>

Next ==
    \/ reset_database
    \/ setup_collection
    \/ ingest_text
    \/ build_index
    \/ initialize_database
    \/ webhook

Spec == Init /\ [][Next]_vars

----------------------------------------------------------------------------
(* Properties. *)

\* the collection of the program's name that has the given uid
CollectionOfUid(uid) ==
    LET db == CHOOSE d \in DatabaseNames : colls[d][collection_name].uid = uid
    IN colls[db][collection_name]

\* the documents the current setup_collection call has stored
Stored == LET c == Handle(collection_name) IN SubSeq(c.docs, base + 1, Len(c.docs))

\* C1: whatever the store held before, reset_database returns a collection of exactly
\* len(initial_texts) documents, and the initialize_database that follows inserts
\* nothing more: the run has made len(initial_texts) inserts when it starts serving.
C1_ResetYieldsExactlySeedCorpus ==
    /\ reset_uid # 0 => Len(CollectionOfUid(reset_uid).docs) = Len(initial_texts)
    /\ pc = "serve" => inserted = Len(initial_texts)

\* C2: create_collection is idempotent: every later call of a run returns the
\* collection the first call returned, and the run never creates a second collection
\* of that name.
C2_CreateCollectionIdempotent ==
    /\ \A j \in 1..Len(created) : created[j] = created[1]
    /\ nextUid <= Cardinality(DatabaseNames) + 2

\* C3: an insert of an embedding whose length differs from the collection's dimension
\* fails with SchemaMismatchError and leaves the stored documents unchanged.
C3_DimensionMismatchRejected ==
    [][(/\ pc = "ingest"
        /\ i <= Len(initial_texts)
        /\ last_embedding' # NoneEmbedding
        /\ last_embedding'.dim # Handle(collection_name).dim)
       => (pc' = "crashed" /\ err' = "SchemaMismatchError" /\ colls' = colls)]_vars

\* C3 witness: the collection was reused from an earlier model of another dimension and
\* the insert of the first seed text was refused.
C3_Witness ==
    /\ pc = "crashed"
    /\ err = "SchemaMismatchError"
    /\ ~IsNew(Handle(collection_name))
    /\ last_embedding.dim \in {LargeDim, SmallDim}
    /\ last_embedding.dim # Handle(collection_name).dim
    /\ Len(Handle(collection_name).docs) = base

\* C4: a message event whose embedding call or store access failed is answered with
\* an empty list of similar texts; the handler does not raise.
C4_QueryFailureReturnsEmpty ==
    (req.etype = "message" /\ (req.embedding = NoneEmbedding \/ ~req.store_up))
        => (req.outcome = "done" /\ req.similar_texts = <<>>)

\* C5: a seed text whose embedding failed ends the startup: nothing is inserted for
\* it, the loop does not go on to later texts, and the script never serves.
C5_EmbeddingFailureAbortsStartup ==
    [][/\ (pc = "ingest" /\ i <= Len(initial_texts) /\ last_embedding' = NoneEmbedding)
          => (pc' = "crashed" /\ colls' = colls /\ i' = i /\ inserted' = inserted)
       /\ pc = "crashed" => pc' = "crashed"]_vars

\* C5 witness: the embedding of the third seed text failed after two were stored.
C5_Witness ==
    /\ pc = "crashed"
    /\ err = "ParamError"
    /\ last_embedding = NoneEmbedding
    /\ i = 3
    /\ Len(Stored) = 2

C8_PrefixInOrderIndexLast ==
    /\ pc \in {"ingest", "crashed"} =>
         /\ Len(Stored) = i - 1
         /\ \A j \in 1..Len(Stored) : Stored[j].text = preprocess_text(initial_texts[j])
         /\ \A j, k \in 1..Len(Stored) : j < k => Stored[j].id < Stored[k].id
         /\ IsNew(Handle(collection_name)) => ~Handle(collection_name).indexed
    /\ \A db \in DatabaseNames :
         LET c == colls[db][collection_name]
         IN (IsNew(c) /\ c.indexed) =>
                (Len(c.docs) = Len(initial_texts) /\ c.indexedAt = Len(c.docs))

\* C8 witness: the ingestion failed on the third text with exactly the first two
\* stored and no index built.
C8_Witness ==
    /\ pc = "crashed"
    /\ i = 3
    /\ Len(Stored) = 2
    /\ Stored[1].text = preprocess_text(initial_texts[1])
    /\ Stored[2].text = preprocess_text(initial_texts[2])
    /\ ~Handle(collection_name).indexed

C10_EmbeddingOfStoredText ==
    pc \in {"ingest", "crashed"} =>
        \A j \in 1..Len(Stored) :
            Stored[j].embedding = generate_embeddings_openai(Stored[j].text, model, TRUE)

====
